---------------------------- MODULE Spec2Model ----------------------------
(***************************************************************************)
(* A model of mdpo/md.py: the MarkdownSpanWrapper (an event-driven line    *)
(* wrapper fed by the md4c parser callbacks), escape_links_titles and      *)
(* solve_link_reference_targets.                                           *)
(*                                                                         *)
(* A Python str is a sequence of one-character strings; None is the        *)
(* one-element sequence <<"None">>, which no str equals.                   *)
(***************************************************************************)
EXTENDS Integers, Sequences, FiniteSets, TLC

VARIABLES
    self,          \* the MarkdownSpanWrapper object: its arguments and state
    open,          \* spans the parser has entered and not left (innermost last)
    events,        \* the callbacks the parser has made so far
    pc,            \* "start" | "parse" | "parsed" | "done" | "raised": where
                   \* wrap() is
    translations,  \* the argument of solve_link_reference_targets
    solved,        \* what the call returned (or raised)
    resolved,      \* what a second call, on the first result, returned
    rpc,           \* "idle" | "call" | "returned" | "again"
    escape_arg,    \* the text escape_links_titles is called on
    escaped        \* what the successive calls returned, each on the last result

vars == <<self, open, events, pc, translations, solved, resolved, rpc,
          escape_arg, escaped>>

(***************************************************************************)
(* Bounds of the model.                                                    *)
(***************************************************************************)
MaxEvents == 3
MaxDepth == 2
MaxEntries == 2
MaxTextEvents == 3
NoLimit == 1000
MaxParts == 3
MaxCalls == 2

(***************************************************************************)
(* str helpers.                                                            *)
(***************************************************************************)
None == <<"None">>

\* the backtick character, which a TLA+ string literal cannot hold
BT == "BT"

NL == <<"\n">>

Truthy(x) == x # None /\ x # <<>>

\* the characters of U+2000..U+3000 that \s matches, which a TLA+ string
\* literal cannot hold, by their code points
WideSpaces ==
    {"U+2000", "U+2001", "U+2002", "U+2003",
     "U+2004", "U+2005", "U+2006", "U+2007",
     "U+2008", "U+2009", "U+200A", "U+2028",
     "U+2029", "U+202F", "U+205F", "U+3000"}

\* what \s matches in a str pattern and str.isspace() accepts: space, the
\* controls U+0009..U+000D and U+001C..U+001F, U+0085, U+00A0, U+1680 and
\* the wide spaces
Whitespace ==
    {" ", "\t", "\n", "\r", "\f", "", "", "", "", "",
     "", " ", " "} \cup WideSpaces

RECURSIVE RStrip(_, _)
\* str.rstrip(chars)
RStrip(s, chars) ==
    IF s # <<>> /\ s[Len(s)] \in chars
    THEN RStrip(SubSeq(s, 1, Len(s) - 1), chars)
    ELSE s

RECURSIVE Rep(_, _)
\* n * s
Rep(s, n) == IF n <= 0 THEN <<>> ELSE s \o Rep(s, n - 1)

RECURSIVE SplitAcc(_, _, _, _)
SplitAcc(s, sep, i, word) ==
    IF i > Len(s) THEN <<word>>
    ELSE IF s[i] = sep THEN <<word>> \o SplitAcc(s, sep, i + 1, <<>>)
    ELSE SplitAcc(s, sep, i + 1, Append(word, s[i]))

\* str.split(sep) for a one-character sep
Split(s, sep) == SplitAcc(s, sep, 1, <<>>)

\* s[i:i+len(t)] == t
MatchAt(s, i, t) ==
    /\ i >= 1
    /\ i + Len(t) - 1 <= Len(s)
    /\ SubSeq(s, i, i + Len(t) - 1) = t

RECURSIVE ReplaceFrom(_, _, _, _)
ReplaceFrom(s, old, new, i) ==
    IF i > Len(s) THEN <<>>
    ELSE IF MatchAt(s, i, old)
    THEN new \o ReplaceFrom(s, old, new, i + Len(old))
    ELSE <<s[i]>> \o ReplaceFrom(s, old, new, i + 1)

\* str.replace(old, new): every non-overlapping occurrence, left to right
Replace(s, old, new) ==
    IF old = <<>> THEN s ELSE ReplaceFrom(s, old, new, 1)

(***************************************************************************)
(* mdpo.po.po_escaped_string and mdpo.text.min_not_max_chars_in_a_row.     *)
(***************************************************************************)
RECURSIVE po_escaped_string(_)
po_escaped_string(chars) ==
    IF chars = <<>> THEN <<>>
    ELSE <<"\\", Head(chars)>> \o po_escaped_string(Tail(chars))

RECURSIVE RunLengths(_, _, _, _)
\* the lengths of the maximal runs of char in text
RunLengths(char, text, i, n) ==
    IF i > Len(text) THEN (IF n > 0 THEN {n} ELSE {})
    ELSE IF text[i] = char THEN RunLengths(char, text, i + 1, n + 1)
    ELSE (IF n > 0 THEN {n} ELSE {}) \cup RunLengths(char, text, i + 1, 0)

min_not_max_chars_in_a_row(char, text) ==
    LET runs == RunLengths(char, text, 1, 0)
    IN  IF runs = {} THEN 1
        ELSE CHOOSE k \in 1..(Len(text) + 1) :
                 /\ k \notin runs
                 /\ \A j \in 1..(k - 1) : j \in runs

(***************************************************************************)
(* escape_links_titles.  The regex is                                      *)
(*     (\[[^\]]+\]\([^\s]+\s)([^\)]+)                                       *)
(* and re.findall scans for leftmost, non-overlapping matches.             *)
(***************************************************************************)
RECURSIVE RunEnd(_, _, _)
\* the index after the longest run of characters outside stop from i
RunEnd(s, i, stop) ==
    IF i <= Len(s) /\ s[i] \notin stop THEN RunEnd(s, i + 1, stop) ELSE i

\* a match of the title regex starting at i: <<end of group 1, end of
\* group 2>> (both exclusive), or <<>> when there is none
TitleMatchAt(s, i) ==
    IF ~(i <= Len(s) /\ s[i] = "[") THEN <<>>
    ELSE LET a == RunEnd(s, i + 1, {"]"})          \* [^\]]+
         IN  IF ~(a > i + 1 /\ MatchAt(s, a, <<"]", "(">>)) THEN <<>>
             ELSE LET b == RunEnd(s, a + 2, Whitespace)   \* [^\s]+
                  IN  IF ~(b > a + 2 /\ b <= Len(s)) THEN <<>>
                      ELSE LET c == RunEnd(s, b + 1, {")"})   \* \s then [^\)]+
                           IN  IF c > b + 1 THEN <<b + 1, c>> ELSE <<>>

RECURSIVE TitleFindAll(_, _)
\* re.findall(regex, text): the (group 1, group 2) pairs
TitleFindAll(s, i) ==
    IF i > Len(s) THEN <<>>
    ELSE LET m == TitleMatchAt(s, i)
         IN  IF m = <<>> THEN TitleFindAll(s, i + 1)
             ELSE <<<<SubSeq(s, i, m[1] - 1), SubSeq(s, m[1], m[2] - 1)>>>>
                      \o TitleFindAll(s, m[2])

RECURSIVE EscapeMatches(_, _)
EscapeMatches(text, matches) ==
    IF matches = <<>> THEN text
    ELSE LET match == Head(matches)
             original_string == match[1] \o match[2]
             target_string ==
                 match[1] \o <<"\"">>
                 \o Replace(SubSeq(match[2], 2, Len(match[2]) - 1),
                            <<"\"">>, <<"\\", "\"">>)
                 \o <<"\"">>
         IN  EscapeMatches(Replace(text, original_string, target_string),
                           Tail(matches))

escape_links_titles(text) == EscapeMatches(text, TitleFindAll(text, 1))

(***************************************************************************)
(* MarkdownSpanWrapper.  The delimiter strings are the defaults of         *)
(* __init__.                                                               *)
(***************************************************************************)
bold_start_string == <<"*", "*">>
bold_end_string == <<"*", "*">>
italic_start_string == <<"*">>
italic_end_string == <<"*">>
code_start_string == <<BT>>
code_end_string == <<BT>>
link_start_string == <<"[">>
link_end_string == <<"]">>
wikilink_start_string == <<"[", "[">>
wikilink_end_string == <<"]", "]">>
italic_start_string_escaped == po_escaped_string(italic_start_string)
italic_end_string_escaped == po_escaped_string(italic_end_string)
code_start_string_escaped == po_escaped_string(code_start_string)
code_end_string_escaped == po_escaped_string(code_end_string)

\* __init__(width, first_line_width, indent, first_line_indent)
NewWrapper(width, first_line_width, indent, first_line_indent) ==
    [width |-> width,
     first_line_width |-> first_line_width,
     indent |-> indent,
     first_line_indent |-> first_line_indent,
     output |-> <<>>,
     current_line |-> <<>>,
     current_aspan_href |-> None,
     current_aspan_title |-> None,
     inside_codespan |-> FALSE,
     current_wikilink_target |-> None,
     raised |-> ""]

\* enter_block and leave_block: pass
enter_block(s, block, details) == s

leave_block(s, block, details) == s

get_currently_applied_width(s) ==
    IF s.output # <<>> THEN s.width ELSE s.first_line_width

get_currently_applied_indent(s) ==
    IF s.output # <<>> THEN s.indent ELSE s.first_line_indent

NoDetails == [href |-> None, title |-> None, target |-> None, src |-> None]

enter_span(s, span, details) ==
    CASE span = "CODE" ->
           [s EXCEPT !.inside_codespan = TRUE,
                     !.current_line = @ \o code_start_string]
      [] span = "A" ->
           [s EXCEPT !.current_line = @ \o link_start_string,
                     !.current_aspan_href = details.href,
                     !.current_aspan_title =
                         IF Truthy(details.title) THEN details.title ELSE None]
      [] span = "STRONG" -> [s EXCEPT !.current_line = @ \o bold_start_string]
      [] span = "EM" -> [s EXCEPT !.current_line = @ \o italic_start_string]
      [] span = "WIKILINK" ->
           [s EXCEPT !.current_line = @ \o wikilink_start_string,
                     !.current_wikilink_target = details.target]
      [] span = "IMG" -> [s EXCEPT !.current_line = @ \o <<"!", "[">>]
      [] OTHER -> s

\* the suffix both the A and the IMG branch of leave_span append
LinkSuffix(href, title) ==
    <<"]", "(">> \o href
    \o (IF Truthy(title)
        THEN <<" ", "\"">> \o escape_links_titles(title) \o <<"\"">>
        ELSE <<>>)
    \o <<")">>

leave_span(s, span, details) ==
    CASE span = "CODE" ->
           [s EXCEPT !.inside_codespan = FALSE,
                     !.current_line = @ \o code_end_string]
      [] span = "A" ->
           IF s.current_line = <<>>
           THEN [s EXCEPT !.raised = "IndexError"]   \* self._current_line[-1]
           ELSE [s EXCEPT
                   !.current_line =
                       IF s.current_line[Len(s.current_line)] # ">"
                       THEN @ \o LinkSuffix(s.current_aspan_href,
                                            s.current_aspan_title)
                       ELSE @,
                   !.current_aspan_href = None,
                   !.current_aspan_title = None]
      [] span = "STRONG" -> [s EXCEPT !.current_line = @ \o bold_end_string]
      [] span = "EM" -> [s EXCEPT !.current_line = @ \o italic_end_string]
      [] span = "WIKILINK" ->
           [s EXCEPT !.current_line = @ \o wikilink_end_string,
                     !.current_wikilink_target = None]
      [] span = "IMG" ->
           [s EXCEPT !.current_line = @ \o LinkSuffix(details.src, details.title)]
      [] OTHER -> s

\* branch 1 of text(): inside a code span
TextCodespan(s, text) ==
    LET width == get_currently_applied_width(s)
        indent == get_currently_applied_indent(s)
        s1 == IF Len(s.current_line) + Len(text) + 1 > width
              THEN [s EXCEPT
                      !.output = @ \o indent
                                   \o RStrip(RStrip(s.current_line, {BT}), {" "})
                                   \o NL,
                      !.current_line = <<BT>>]
              ELSE s
        n_backticks == min_not_max_chars_in_a_row(code_start_string[1], text) - 1
    IN  [s1 EXCEPT !.current_line =
            @ \o Rep(<<BT>>, n_backticks) \o text \o Rep(<<BT>>, n_backticks)]

\* branch 2 of text(): a wikilink target is captured
TextWikilink(s, text) ==
    IF text # s.current_wikilink_target
    THEN [s EXCEPT !.current_line = @ \o s.current_wikilink_target \o <<"|">> \o text]
    ELSE [s EXCEPT !.current_line = @ \o text]

\* branch 3 of text(): the text of a link equals its href and it has no title
TextAutolink(s, text) ==
    [s EXCEPT !.current_line =
        RStrip(s.current_line, {" ", "["}) \o <<" ", "<">> \o text \o <<">">>]

\* the escaping at the head of branch 4
EscapeDelimiter(text) ==
    IF text = italic_start_string THEN italic_start_string_escaped
    ELSE IF text = code_start_string THEN code_start_string_escaped
    ELSE IF text = code_end_string THEN code_end_string_escaped
    ELSE IF text = italic_end_string THEN italic_end_string_escaped
    ELSE text

\* n > width, where width was multiplied by .95 inside a link
Exceeds(n, width, in_link) ==
    IF in_link THEN 20 * n > 19 * width ELSE n > width

\* the flush of the links wrapping: the link text starts on a new line
LinkFlush(s) ==
    LET line == RStrip(SubSeq(s.current_line, 1, Len(s.current_line) - 1), {" "})
    IN  [s EXCEPT !.output = @ \o get_currently_applied_indent(s) \o line \o NL,
                  !.current_line = <<"[">>]

\* the flush of the word loop, were it to start the new line without writing
\* the old one to the output
WordFlushLosesLine(s) ==
    [s EXCEPT !.current_line = <<>>]

\* the flush of the word loop
WordFlush(s) ==
    [s EXCEPT !.output = @ \o get_currently_applied_indent(s)
                           \o s.current_line \o NL,
              !.current_line = <<>>]

RECURSIVE WrapWordsAnywhere(_, _, _, _)
\* the loop over text_splits, were it to flush whenever the word does not
\* fit, also before the first split of a run that continues a word
WrapWordsAnywhere(s, text_splits, i, width) ==
    IF i > Len(text_splits) THEN s
    ELSE LET text_split == text_splits[i]
             in_link == Truthy(s.current_aspan_href)
             over == Exceeds(Len(s.current_line) + Len(text_split) + 1,
                             width, in_link)
             s1 == IF over THEN WordFlush(s)
                   ELSE IF i > 1
                   THEN [s EXCEPT !.current_line = @ \o <<" ">>]
                   ELSE s
             width1 == IF over THEN get_currently_applied_width(s1) ELSE width
         IN  WrapWordsAnywhere([s1 EXCEPT !.current_line = @ \o text_split],
                               text_splits, i + 1, width1)

RECURSIVE WrapWords(_, _, _, _)
\* the loop over text_splits; width is the local of text()
WrapWords(s, text_splits, i, width) ==
    IF i > Len(text_splits) THEN s
    ELSE LET text_split == text_splits[i]
             line == s.current_line
             in_link == Truthy(s.current_aspan_href)
             over == Exceeds(Len(line) + Len(text_split) + 1, width, in_link)
             flush == over /\ (i > 1 \/ (line # <<>> /\ line[Len(line)] = " "))
             s1 == IF flush THEN WordFlush(s)
                   ELSE IF ~over /\ i > 1
                   THEN [s EXCEPT !.current_line = @ \o <<" ">>]
                   ELSE s
             width1 == IF flush THEN get_currently_applied_width(s1) ELSE width
         IN  WrapWords([s1 EXCEPT !.current_line = @ \o text_split],
                       text_splits, i + 1, width1)

\* the links wrapping before the word loop; width is the local of text()
LinkWrap(s, text_splits, width) ==
    IF /\ Truthy(s.current_aspan_href)
       /\ Len(s.current_line) + Len(text_splits[1]) + 1 > width
    THEN LinkFlush(s)
    ELSE s

\* branch 4 of text(): plain text, word wrapped
TextPlain(s, text0) ==
    LET text == EscapeDelimiter(text0)
        text_splits == Split(text, " ")
        width == get_currently_applied_width(s)
    IN  WrapWords(LinkWrap(s, text_splits, width), text_splits, 1, width)

\* which branch of text() would handle the run t, were the autolink test
\* made before the code span and wikilink tests
BranchLinkFirst(s, t) ==
    IF /\ Truthy(s.current_aspan_href)
       /\ s.current_aspan_href = t
       /\ ~Truthy(s.current_aspan_title)
    THEN "autolink"
    ELSE IF s.inside_codespan THEN "codespan"
    ELSE IF Truthy(s.current_wikilink_target) THEN "wikilink"
    ELSE "plain"

\* which branch of text() handles the run t
Branch(s, t) ==
    IF s.inside_codespan THEN "codespan"
    ELSE IF Truthy(s.current_wikilink_target) THEN "wikilink"
    ELSE IF /\ Truthy(s.current_aspan_href)
            /\ s.current_aspan_href = t
            /\ ~Truthy(s.current_aspan_title)
    THEN "autolink"
    ELSE "plain"

text(s, t) ==
    CASE Branch(s, t) = "codespan" -> TextCodespan(s, t)
      [] Branch(s, t) = "wikilink" -> TextWikilink(s, t)
      [] Branch(s, t) = "autolink" -> TextAutolink(s, t)
      [] OTHER -> TextPlain(s, t)

\* the tail of wrap(), after parser.parse returned
wrap(s) ==
    LET s1 == IF s.current_line # <<>>
              THEN [s EXCEPT !.output = @ \o get_currently_applied_indent(s)
                                          \o s.current_line]
              ELSE s
    IN  IF s.first_line_width = s.width
        THEN [s1 EXCEPT !.output = @ \o NL]
        ELSE s1

(***************************************************************************)
(* solve_link_reference_targets.  LINK_REFERENCE_RE is                     *)
(*     ^\s{0,3}\[([^\]]+)\]:\s+<?([^\s>]+)>?\s*["'\(]?([^"'\)]+)?           *)
(* and LINK_REFERENCED_LINK_RE is                                          *)
(*     \[([^\]]+)\]\[([^\]\s]+)\]                                          *)
(* A dict is the sequence of its (key, value) pairs in insertion order.    *)
(***************************************************************************)
RECURSIVE SpanIn(_, _, _)
\* the index after the longest run of characters of set from i
SpanIn(s, i, set) ==
    IF i <= Len(s) /\ s[i] \in set THEN SpanIn(s, i + 1, set) ELSE i

\* re.search(LINK_REFERENCE_RE, s): match.groups(), or None for no match
LinkReferenceSearch(s) ==
    LET lead == SpanIn(s, 1, Whitespace)                      \* ^\s{0,3}
    IN  IF ~(lead <= 4 /\ lead <= Len(s) /\ s[lead] = "[") THEN None
        ELSE
        LET a == RunEnd(s, lead + 1, {"]"})                   \* ([^\]]+)
        IN  IF ~(a > lead + 1 /\ MatchAt(s, a, <<"]", ":">>)) THEN None
            ELSE
            LET w == SpanIn(s, a + 2, Whitespace)             \* \s+
                \* <? is taken when a target can follow it
                t0 == IF /\ w <= Len(s)
                         /\ s[w] = "<"
                         /\ RunEnd(s, w + 1, Whitespace \cup {">"}) > w + 1
                      THEN w + 1 ELSE w
                t1 == RunEnd(s, t0, Whitespace \cup {">"})    \* ([^\s>]+)
                p1 == IF t1 <= Len(s) /\ s[t1] = ">" THEN t1 + 1 ELSE t1
                p2 == SpanIn(s, p1, Whitespace)               \* \s*
                p3 == IF p2 <= Len(s) /\ s[p2] \in {"\"", "'", "("}
                      THEN p2 + 1 ELSE p2
                e == RunEnd(s, p3, {"\"", "'", ")"})          \* ([^"'\)]+)?
            IN  IF w = a + 2 \/ t1 = t0 THEN None
                ELSE <<SubSeq(s, lead + 1, a - 1),
                       SubSeq(s, t0, t1 - 1),
                       IF e > p3 THEN SubSeq(s, p3, e - 1) ELSE None>>

\* a match of LINK_REFERENCED_LINK_RE starting at i: the indexes of its two
\* closing brackets, or <<>> when there is none
ReferencedLinkAt(s, i) ==
    IF s[i] # "[" THEN <<>>
    ELSE LET a == RunEnd(s, i + 1, {"]"})
         IN  IF ~(a > i + 1 /\ MatchAt(s, a, <<"]", "[">>)) THEN <<>>
             ELSE LET b == RunEnd(s, a + 2, {"]"} \cup Whitespace)
                  IN  IF b > a + 2 /\ b <= Len(s) /\ s[b] = "]"
                      THEN <<a, b>> ELSE <<>>

RECURSIVE ReferencedLinksFrom(_, _)
ReferencedLinksFrom(s, i) ==
    IF i > Len(s) THEN <<>>
    ELSE LET m == ReferencedLinkAt(s, i)
         IN  IF m = <<>> THEN ReferencedLinksFrom(s, i + 1)
             ELSE <<<<SubSeq(s, i + 1, m[1] - 1), SubSeq(s, m[1] + 2, m[2] - 1)>>>>
                      \o ReferencedLinksFrom(s, m[2] + 1)

\* re.findall(LINK_REFERENCED_LINK_RE, s): the (text, label) pairs
ReferencedLinks(s) == ReferencedLinksFrom(s, 1)

Raised(exception) ==
    [raised |-> exception, references |-> <<>>, with_links |-> <<>>]

RECURSIVE Discover(_, _, _, _)
\* the first loop: link_references_text_targets and msgid_msgstrs_with_links
Discover(items, i, references, with_links) ==
    IF i > Len(items)
    THEN [raised |-> "", references |-> references, with_links |-> with_links]
    ELSE
    LET msgid == items[i][1]
        msgstr == items[i][2]
    IN  IF msgid = None THEN Raised("TypeError")            \* None[0]
        ELSE IF msgid = <<>> THEN Raised("IndexError")      \* ''[0]
        ELSE
        LET msgid_match ==
                IF msgid[1] = "[" THEN LinkReferenceSearch(msgid) ELSE None
            msgid_matchs == ReferencedLinks(msgid)
        IN  IF msgstr = None /\ (msgid_match # None \/ msgid_matchs # <<>>)
            THEN Raised("TypeError")                        \* a regex over None
            ELSE
            LET msgstr_match ==
                    IF msgid_match # None
                    THEN LinkReferenceSearch(msgstr) ELSE None
                msgstr_matchs ==
                    IF msgid_matchs # <<>> THEN ReferencedLinks(msgstr) ELSE <<>>
            IN  Discover(items, i + 1,
                         IF msgstr_match # None
                         THEN Append(references, <<msgid_match, msgstr_match>>)
                         ELSE references,
                         IF msgstr_matchs # <<>>
                         THEN Append(with_links,
                                     <<msgid, msgstr, msgid_matchs, msgstr_matchs>>)
                         ELSE with_links)

\* the first definition pair whose label on this side (1: msgid, 2: msgstr)
\* is the label of the usage, or 0
FirstReference(references, side, label) ==
    LET hits == {k \in 1..Len(references) : references[k][side][1] = label}
    IN  IF hits = {} THEN 0
        ELSE CHOOSE k \in hits : \A j \in hits : k <= j

RECURSIVE ReplaceGroups(_, _, _, _, _)
\* one of the two inner loops: new is new_msgid (or new_msgstr), None until
\* the first replacement
ReplaceGroups(new, orig, linkr_groups, references, side) ==
    IF linkr_groups = <<>> THEN new
    ELSE
    LET group == Head(linkr_groups)
        k == FirstReference(references, side, group[2])
        replacer == <<"[">> \o group[1] \o <<"]", "[">> \o group[2] \o <<"]">>
        replacement ==
            <<"[">> \o group[1] \o <<"]", "(">> \o references[k][side][2] \o <<")">>
    IN  ReplaceGroups(
            IF k = 0 THEN new
            ELSE Replace(IF new = None THEN orig ELSE new, replacer, replacement),
            orig, Tail(linkr_groups), references, side)

\* solutions[key] = value
DictSet(d, key, value) ==
    IF \E k \in 1..Len(d) : d[k][1] = key
    THEN [k \in 1..Len(d) |-> IF d[k][1] = key THEN <<key, value>> ELSE d[k]]
    ELSE Append(d, <<key, value>>)

RECURSIVE Rewrite(_, _, _, _)
\* the second loop, over msgid_msgstrs_with_links
Rewrite(with_links, i, references, solutions) ==
    IF i > Len(with_links) THEN solutions
    ELSE LET e == with_links[i]
             new_msgid == ReplaceGroups(None, e[1], e[3], references, 1)
             new_msgstr == ReplaceGroups(None, e[2], e[4], references, 2)
         IN  Rewrite(with_links, i + 1, references,
                     DictSet(solutions, new_msgid, new_msgstr))

\* the call: what it raised, or the dict it returned
solve_link_reference_targets(items) ==
    LET found == Discover(items, 1, <<>>, <<>>)
    IN  IF found.raised # ""
        THEN [raised |-> found.raised, solutions |-> <<>>]
        ELSE [raised |-> "",
              solutions |-> Rewrite(found.with_links, 1, found.references, <<>>)]

(***************************************************************************)
(* The parser's callbacks.  md4c calls enter_span/leave_span well nested,  *)
(* delivers only text inside a code span and puts no link inside a link.   *)
(***************************************************************************)
Event(op, span, t, details) ==
    [op |-> op, span |-> span, text |-> t, details |-> details]

\* one callback of parser.parse applied to the wrapper
ApplyEvent(s, e) ==
    CASE e.op = "enter_span" -> enter_span(s, e.span, e.details)
      [] e.op = "leave_span" -> leave_span(s, e.span, e.details)
      [] e.op = "text" -> text(s, e.text)
      [] OTHER -> s

RECURSIVE Replay(_, _)
\* parser.parse making the callbacks evs in order
Replay(s, evs) ==
    IF evs = <<>> \/ s.raised # "" THEN s
    ELSE Replay(ApplyEvent(s, Head(evs)), Tail(evs))

\* the callbacks that count towards a bound: leave_span and the tail of
\* wrap() are always allowed to follow
NInputs == Cardinality({i \in 1..Len(events) : events[i].op # "leave_span"})

OpenSpans == {open[i].span : i \in 1..Len(open)}

\* the parser puts no span inside a code span, and no link or wikilink
\* inside a link or a wikilink
CanEnter(span) ==
    /\ Len(open) < MaxDepth
    /\ "CODE" \notin OpenSpans
    /\ span \in {"A", "WIKILINK"} => OpenSpans \cap {"A", "WIKILINK"} = {}

Href == <<"h">>
Title == <<"t", "\"", "q">>
Target == <<"a", "b">>

\* the details md4c gives with each span type
SpanInputs ==
    {<<"CODE", NoDetails>>, <<"EM", NoDetails>>,
     <<"A", [NoDetails EXCEPT !.href = Href]>>,
     <<"A", [NoDetails EXCEPT !.href = Href, !.title = Title]>>,
     <<"WIKILINK", [NoDetails EXCEPT !.target = Target]>>,
     <<"IMG", [NoDetails EXCEPT !.src = Href, !.title = Title]>>}

TextRuns ==
    {<<"a", "b">>, <<"a", " ", "b">>, <<"c", " ">>, <<"a", ">">>, <<"*">>, Href}

\* (width, first_line_width, indent, first_line_indent)
Configs ==
    {NewWrapper(w[1], w[2], ind[1], ind[2]) :
        w \in {<<4, 4>>, <<7, 7>>, <<7, 4>>},
        ind \in {<<<<>>, <<>>>>, <<<<">", " ">>, <<"-">>>>}}

NoResult == [raised |-> "", solutions |-> <<>>]

ResolverIdle ==
    /\ translations = <<>>
    /\ solved = NoResult
    /\ resolved = NoResult
    /\ rpc = "idle"

EscaperIdle ==
    /\ escape_arg = <<>>
    /\ escaped = <<>>

InitWrapper(configs) ==
    /\ self \in configs
    /\ open = <<>>
    /\ events = <<>>
    /\ pc = "start"
    /\ ResolverIdle
    /\ EscaperIdle

\* the parser enters the block whose inline content is wrapped
EnterBlock ==
    /\ pc = "start"
    /\ self' = enter_block(self, "P", NoDetails)
    /\ pc' = "parse"
    /\ UNCHANGED <<open, events, translations, solved, resolved, rpc,
                   escape_arg, escaped>>

\* and leaves it after the last span is closed
LeaveBlock ==
    /\ pc = "parse"
    /\ open = <<>>
    /\ self' = leave_block(self, "P", NoDetails)
    /\ pc' = "parsed"
    /\ UNCHANGED <<open, events, translations, solved, resolved, rpc,
                   escape_arg, escaped>>

EnterSpan(span, details, max) ==
    /\ pc = "parse"
    /\ NInputs < max
    /\ CanEnter(span)
    /\ self' = enter_span(self, span, details)
    /\ open' = Append(open, [span |-> span, details |-> details])
    /\ events' = Append(events, Event("enter_span", span, None, details))
    /\ UNCHANGED <<pc, translations, solved, resolved, rpc, escape_arg, escaped>>

LeaveSpan ==
    /\ pc = "parse"
    /\ open # <<>>
    /\ LET top == open[Len(open)]
           s == leave_span(self, top.span, top.details)
       IN  /\ self' = s
           /\ pc' = IF s.raised # "" THEN "raised" ELSE "parse"
           /\ events' = Append(events,
                               Event("leave_span", top.span, None, top.details))
    /\ open' = SubSeq(open, 1, Len(open) - 1)
    /\ UNCHANGED <<translations, solved, resolved, rpc, escape_arg, escaped>>

Text(t, max) ==
    /\ pc = "parse"
    /\ NInputs < max
    /\ self' = text(self, t)
    /\ events' = Append(events, Event("text", "NONE", t, NoDetails))
    /\ UNCHANGED <<open, pc, translations, solved, resolved, rpc, escape_arg, escaped>>

Wrap ==
    /\ pc = "parsed"
    /\ self' = wrap(self)
    /\ pc' = "done"
    /\ UNCHANGED <<open, events, translations, solved, resolved, rpc, escape_arg, escaped>>

Init == InitWrapper(Configs)

Next ==
    \/ EnterBlock
    \/ LeaveBlock
    \/ \E in \in SpanInputs : EnterSpan(in[1], in[2], MaxEvents)
    \/ LeaveSpan
    \/ \E t \in TextRuns : Text(t, MaxEvents)
    \/ Wrap

Spec == Init /\ [][Next]_vars

(***************************************************************************)
(* Plain text only: the parser delivers text runs and no span.             *)
(***************************************************************************)
PlainRuns ==
    {<<"a", "b">>, <<"a", " ", "b">>, <<"c", " ">>, <<" ", "d">>,
     <<"a", " ", " ", "b">>, <<"a", "b", "c", "d", "e">>, <<"*">>, <<BT>>}

PlainConfigs ==
    {NewWrapper(w[1], w[2], ind[1], ind[2]) :
        w \in {<<1, 1>>, <<4, 4>>, <<7, 7>>, <<7, 4>>, <<4, 7>>},
        ind \in {<<<<>>, <<>>>>, <<<<">", " ">>, <<"-">>>>, <<<<" ", " ">>, <<>>>>}}

InitText == InitWrapper(PlainConfigs)

NextText ==
    \/ EnterBlock
    \/ LeaveBlock
    \/ \E t \in PlainRuns : Text(t, MaxTextEvents)
    \/ Wrap

SpecText == InitText /\ [][NextText]_vars

(***************************************************************************)
(* Reading the output back.                                                *)
(***************************************************************************)
RECURSIVE Concat(_)
\* the concatenation of a sequence of strs
Concat(ss) == IF ss = <<>> THEN <<>> ELSE Head(ss) \o Concat(Tail(ss))

\* s[n:]
Drop(s, n) == SubSeq(s, n + 1, Len(s))

\* the lines of the output, each without its line break and without the
\* indent the flush put before it
ContentLines(s) ==
    LET parts == Split(s.output, "\n")
        n == IF parts[Len(parts)] = <<>> THEN Len(parts) - 1 ELSE Len(parts)
    IN  [k \in 1..n |->
            Drop(parts[k],
                 Len(IF k = 1 THEN s.first_line_indent ELSE s.indent))]

RECURSIVE WordsAcc(_, _, _)
WordsAcc(s, i, word) ==
    IF i > Len(s) THEN (IF word = <<>> THEN <<>> ELSE <<word>>)
    ELSE IF s[i] \in Whitespace
    THEN (IF word = <<>> THEN <<>> ELSE <<word>>) \o WordsAcc(s, i + 1, <<>>)
    ELSE WordsAcc(s, i + 1, Append(word, s[i]))

\* the words of a str: its maximal runs of characters that are not spaces
Words(s) == WordsAcc(s, 1, <<>>)

\* the words of the output, an inserted line break (with the indent after
\* it) separating words as a space does
OutputWords(s) ==
    Concat([k \in 1..Len(ContentLines(s)) |-> Words(ContentLines(s)[k])])

TextRunsOf(evs) ==
    [k \in 1..Len(evs) |-> evs[k].text]

OnlyText == \A k \in 1..Len(events) : events[k].op = "text"

\* C1 as stated: wrapping plain text keeps the words of the concatenated text
\* runs: the words of the returned text, read with every inserted line break
\* and indent as a separator, are the words of the input, in order.
C1_WordsKept ==
    (pc = "done" /\ OnlyText)
        => OutputWords(self) = Words(Concat(TextRunsOf(events)))

\* C1 amended: the same, except that a text run that is exactly one italic or
\* code delimiter is written in its escaped form, a backslash before it.
C1_WordsKeptEscaped ==
    (pc = "done" /\ OnlyText)
        => OutputWords(self)
             = Words(Concat([k \in 1..Len(events) |->
                                EscapeDelimiter(events[k].text)]))

\* a text of several words was wrapped over more than one line
C1_Witness ==
    /\ pc = "done"
    /\ OnlyText
    /\ Len(ContentLines(self)) >= 2
    /\ Len(OutputWords(self)) >= 3

(***************************************************************************)
(* Claims about spans.                                                     *)
(***************************************************************************)
\* the wrapper as __init__ left it, and the same with no width limit
Fresh(s) == NewWrapper(s.width, s.first_line_width, s.indent, s.first_line_indent)

Unlimited(s) == NewWrapper(NoLimit, NoLimit, s.indent, s.first_line_indent)

\* the output so far with the inserted line breaks and indents removed,
\* then the line under construction
Flat(s) == Concat(ContentLines(s)) \o s.current_line

EndsWith(s, t) ==
    /\ Len(t) <= Len(s)
    /\ SubSeq(s, Len(s) - Len(t) + 1, Len(s)) = t

LastEvent == events[Len(events)]

JustLeft(span) ==
    /\ pc = "parse"
    /\ events # <<>>
    /\ LastEvent.op = "leave_span"
    /\ LastEvent.span = span

\* the enter_span that the last event, a leave_span, closes
EnterIndex ==
    CHOOSE j \in 1..Len(events) :
        /\ events[j].op = "enter_span"
        /\ Cardinality({k \in (j + 1)..(Len(events) - 1) :
                            events[k].op = "enter_span"})
             = Cardinality({k \in (j + 1)..(Len(events) - 1) :
                                events[k].op = "leave_span"})
        /\ \A m \in (j + 1)..(Len(events) - 1) :
               Cardinality({k \in (j + 1)..m : events[k].op = "enter_span"})
                 >= Cardinality({k \in (j + 1)..m : events[k].op = "leave_span"})

\* the events between that enter_span and the leave_span
Inside == SubSeq(events, EnterIndex + 1, Len(events) - 1)

InsideOnlyText == \A k \in 1..Len(Inside) : Inside[k].op = "text"

InsideText == Concat(TextRunsOf(Inside))

\* the line the events render when nothing is ever flushed
RenderedLine == Replay(Unlimited(self), events).current_line

NoSpaceRuns ==
    \A k \in 1..Len(events) :
        events[k].op = "text"
            => \A i \in 1..Len(events[k].text) : events[k].text[i] \notin Whitespace

\* C2: when no text run holds a space and the rendered line is no longer than
\* the applicable width, wrap() returns that one line: nothing was flushed
\* before its final flush.
C2_OneLine ==
    (/\ pc = "done"
     /\ NoSpaceRuns
     /\ RenderedLine # <<>>
     /\ Len(RenderedLine) <= self.first_line_width)
        => self.output = self.first_line_indent \o RenderedLine
                           \o (IF self.first_line_width = self.width
                               THEN NL ELSE <<>>)

\* C3: once a code span is left, the output without inserted line breaks and
\* indents ends with the content of the span, verbatim, between two fences of
\* the same number of backticks.
C3_CodeSpanRoundTrip ==
    JustLeft("CODE")
        => \E n \in 1..(Len(InsideText) + 1) :
               EndsWith(Flat(self),
                        Rep(<<BT>>, n) \o InsideText \o Rep(<<BT>>, n))

\* C4: a link with no title whose one text run is its href adds exactly
\* <href> to what was rendered before the link.
C4_AutolinkExact ==
    (/\ JustLeft("A")
     /\ ~Truthy(LastEvent.details.title)
     /\ Inside = <<Event("text", "NONE", LastEvent.details.href, NoDetails)>>)
        => Flat(self)
             = Flat(Replay(Fresh(self), SubSeq(events, 1, EnterIndex - 1)))
                 \o <<"<">> \o LastEvent.details.href \o <<">">>

\* C5: leaving a link or an image whose title holds double quotes appends
\* (href "title") with a backslash before every double quote of the title.
C5_TitleQuotesEscaped ==
    (/\ (JustLeft("A") \/ JustLeft("IMG"))
     /\ Truthy(LastEvent.details.title)
     /\ \E i \in 1..Len(LastEvent.details.title) :
            LastEvent.details.title[i] = "\"")
        => EndsWith(self.current_line,
                    <<"(">>
                    \o (IF LastEvent.span = "A" THEN LastEvent.details.href
                        ELSE LastEvent.details.src)
                    \o <<" ", "\"">>
                    \o Replace(LastEvent.details.title, <<"\"">>, <<"\\", "\"">>)
                    \o <<"\"", ")">>)

\* C6: once a wikilink is left, what stands between [[ and ]] is the target
\* when the display text equals it and target|display text otherwise, the
\* display text being all the text runs of the span.
C6_WikilinkOnce ==
    (JustLeft("WIKILINK") /\ InsideOnlyText /\ Inside # <<>>)
        => EndsWith(Flat(self),
                    <<"[", "[">>
                    \o (IF InsideText = LastEvent.details.target
                        THEN LastEvent.details.target
                        ELSE LastEvent.details.target \o <<"|">> \o InsideText)
                    \o <<"]", "]">>)

(***************************************************************************)
(* The resolver, called on a catalog and then on what it returned.         *)
(***************************************************************************)
\* msgid, msgstr pairs a catalog may hold
Entries ==
    {\* a definition on both sides
     <<<<"[", "r", "]", ":", " ", "/", "p">>,
       <<"[", "r", "]", ":", " ", "/", "q">>>>,
     \* usages of it on both sides
     <<<<"x", " ", "[", "a", "]", "[", "r", "]">>,
       <<"y", " ", "[", "b", "]", "[", "r", "]">>>>,
     \* usages of a label nothing defines
     <<<<"x", " ", "[", "a", "]", "[", "z", "]">>,
       <<"y", " ", "[", "b", "]", "[", "z", "]">>>>,
     \* a usage of each label
     <<<<"[", "a", "]", "[", "r", "]", " ", "[", "a", "]", "[", "z", "]">>,
       <<"[", "b", "]", "[", "r", "]", " ", "[", "b", "]", "[", "z", "]">>>>,
     \* a definition and a usage in one entry
     <<<<"[", "r", "]", ":", " ", "/", "p", "\n", "[", "a", "]", "[", "r", "]">>,
       <<"[", "r", "]", ":", " ", "/", "q", "\n", "[", "b", "]", "[", "r", "]">>>>,
     \* a usage on the msgid side only
     <<<<"w", " ", "[", "a", "]", "[", "r", "]">>, <<"w">>>>,
     \* the header entry of a catalog: an empty msgid
     <<<<>>, <<"h">>>>,
     \* an untranslated entry
     <<<<"x">>, <<>>>>}

RECURSIVE Catalogs(_)
\* the catalogs of at most n entries: a dict has no key twice
Catalogs(n) ==
    IF n = 0 THEN {<<>>}
    ELSE LET shorter == Catalogs(n - 1)
         IN  shorter \cup
             {Append(c, e) : c \in {d \in shorter : Len(d) = n - 1},
                             e \in Entries}

DistinctKeys(c) ==
    \A i, j \in 1..Len(c) : i # j => c[i][1] # c[j][1]

InitResolve ==
    /\ self = NewWrapper(80, 80, <<>>, <<>>)
    /\ open = <<>>
    /\ events = <<>>
    /\ pc = "idle"
    /\ translations \in {c \in Catalogs(MaxEntries) : DistinctKeys(c)}
    /\ solved = NoResult
    /\ resolved = NoResult
    /\ rpc = "call"
    /\ EscaperIdle

\* the dict the next call is made on: the catalog, then the dict the first
\* call returned
SolveInput == IF rpc = "call" THEN translations ELSE solved.solutions

\* a call of solve_link_reference_targets by the catalog's owner
Solve ==
    /\ rpc \in {"call", "returned"}
    /\ rpc = "returned" => solved.raised = ""
    /\ \E result \in {solve_link_reference_targets(SolveInput)} :
          /\ solved' = IF rpc = "call" THEN result ELSE solved
          /\ resolved' = IF rpc = "call" THEN resolved ELSE result
    /\ rpc' = IF rpc = "call" THEN "returned" ELSE "again"
    /\ UNCHANGED <<self, open, events, pc, translations, escape_arg, escaped>>

NextResolve == Solve

SpecResolve == InitResolve /\ [][NextResolve]_vars

\* what the first loop found in the catalog
Found == Discover(translations, 1, <<>>, <<>>)

\* text with every usage whose label a definition pair defines on this side
\* replaced, and unchanged when there is none
Rewritten(orig, linkr_groups, side) ==
    LET new == ReplaceGroups(None, orig, linkr_groups, Found.references, side)
    IN  IF new = None THEN orig ELSE new

Returned == rpc = "returned" /\ solved.raised = ""

InSolutions(result, pair) ==
    \E k \in 1..Len(result.solutions) : result.solutions[k] = pair

\* C7: every queued entry has a result entry: its msgid with the usages of
\* msgid-side labels replaced by their targets, mapped to its msgstr with the
\* usages of msgstr-side labels replaced by theirs.
C7_ReferencesRewritten ==
    Returned
        => \A i \in 1..Len(Found.with_links) :
               LET e == Found.with_links[i]
               IN  InSolutions(solved, <<Rewritten(e[1], e[3], 1),
                                         Rewritten(e[2], e[4], 2)>>)

\* C8: every key and every value of the returned dict is a str, and a queued
\* entry none of whose usages has a defined label is returned as it was.
C8_UnmatchedPassThrough ==
    Returned
        => /\ \A k \in 1..Len(solved.solutions) :
                  /\ solved.solutions[k][1] # None
                  /\ solved.solutions[k][2] # None
           /\ \A i \in 1..Len(Found.with_links) :
                  LET e == Found.with_links[i]
                  IN  (/\ Rewritten(e[1], e[3], 1) = e[1]
                       /\ Rewritten(e[2], e[4], 2) = e[2])
                          => InSolutions(solved, <<e[1], e[2]>>)

\* C9: the call returns a dict for every catalog of strs: it never raises.
C9_NeverRaises ==
    rpc = "returned" => solved.raised = ""

\* C10: the call on the dict the first call returned raises nothing and
\* returns no entry that the first result does not hold already.
C10_Idempotent ==
    rpc = "again"
        => /\ resolved.raised = ""
           /\ \A k \in 1..Len(resolved.solutions) :
                  InSolutions(solved, resolved.solutions[k])

(***************************************************************************)
(* The end of wrap().                                                      *)
(***************************************************************************)
\* C11: the text wrap() returns ends with exactly one line break when
\* first_line_width equals width, and with none when they differ.
C11_TrailingNewline ==
    pc = "done"
        => IF self.first_line_width = self.width
           THEN /\ EndsWith(self.output, NL)
                /\ ~EndsWith(self.output, NL \o NL)
           ELSE ~EndsWith(self.output, NL)

(***************************************************************************)
(* The applicable width and indent.                                        *)
(***************************************************************************)
\* the width and the indent that apply once s holds its output
ApplicableWidth(s) == IF s.output # <<>> THEN s.width ELSE s.first_line_width

ApplicableIndent(s) == IF s.output # <<>> THEN s.indent ELSE s.first_line_indent

\* line k of the output starts with the indent of its position
IndentedLine(s, k) ==
    LET parts == Split(s.output, "\n")
        indent == IF k = 1 THEN s.first_line_indent ELSE s.indent
    IN  /\ Len(indent) <= Len(parts[k])
        /\ SubSeq(parts[k], 1, Len(indent)) = indent

\* C12: the word loop of text() compares with first_line_width while the
\* output holds no line and with width from the first emitted line on, for
\* every text run the parser may deliver next; and the first line of the
\* output starts with first_line_indent, every later line with indent.
C12_ApplicableWidthIndent ==
    /\ pc = "parse"
         => \A t \in TextRuns :
                Branch(self, t) = "plain"
                    => LET text_splits == Split(EscapeDelimiter(t), " ")
                           width == get_currently_applied_width(self)
                       IN  width = ApplicableWidth(LinkWrap(self, text_splits, width))
    /\ \A k \in 1..Len(Split(self.output, "\n")) :
           Split(self.output, "\n")[k] # <<>> => IndentedLine(self, k)

(***************************************************************************)
(* escape_links_titles, called on a text and then on what it returned.     *)
(***************************************************************************)
\* what a text is put together from
Fragments ==
    {<<"[", "x", "]", "(", "h", " ">>,          \* a link up to its title
     <<"\"", "a", "\"">>,                       \* a quoted word
     <<"[", "y", "]", "(", "k", ")">>,          \* a link with no title
     <<"a", "b">>, <<"w">>, <<")">>, <<"\"">>, <<" ">>}

RECURSIVE Texts(_)
\* the texts of at most n fragments
Texts(n) ==
    IF n = 0 THEN {<<>>}
    ELSE LET shorter == Texts(n - 1)
         IN  shorter \cup {t \o f : t \in shorter, f \in Fragments}

InitEscape ==
    /\ self = NewWrapper(80, 80, <<>>, <<>>)
    /\ open = <<>>
    /\ events = <<>>
    /\ pc = "idle"
    /\ ResolverIdle
    /\ escape_arg \in Texts(MaxParts)
    /\ escaped = <<>>

\* a call of escape_links_titles: on the text, then on what it last returned
Escape ==
    /\ Len(escaped) < MaxCalls
    /\ escaped' = Append(escaped,
                         escape_links_titles(IF escaped = <<>> THEN escape_arg
                                             ELSE escaped[Len(escaped)]))
    /\ UNCHANGED <<self, open, events, pc, translations, solved, resolved, rpc,
                   escape_arg>>

NextEscape == Escape

SpecEscape == InitEscape /\ [][NextEscape]_vars

\* the text holds a link title: after a link's href and a space, a payload
\* in double quotes
HasLinkTitle(t) ==
    \E k \in 1..Len(TitleFindAll(t, 1)) :
        LET payload == TitleFindAll(t, 1)[k][2]
        IN  /\ Len(payload) >= 2
            /\ payload[1] = "\""
            /\ payload[Len(payload)] = "\""

\* C13: a text that holds no link title is returned unchanged, by the first
\* call and by a second call on the result.
C13_NoTitleUnchanged ==
    ~HasLinkTitle(escape_arg)
        => \A k \in 1..Len(escaped) : escaped[k] = escape_arg

(***************************************************************************)
(* Links.                                                                  *)
(***************************************************************************)
\* the wrapper as it was before callback k
StateBefore(k) == Replay(Fresh(self), SubSeq(events, 1, k - 1))

\* the last callback was leave_span(A), whether it returned or raised
LeftLink ==
    /\ pc \in {"parse", "raised"}
    /\ events # <<>>
    /\ LastEvent.op = "leave_span"
    /\ LastEvent.span = "A"

\* text() collapsed the link that was just left into <href>
Collapsed ==
    \E k \in (EnterIndex + 1)..(Len(events) - 1) :
        /\ events[k].op = "text"
        /\ Branch(StateBefore(k), events[k].text) = "autolink"

\* C14: leaving a link that text() did not collapse appends ](href) or
\* ](href "title") to the buffer, and raises nothing.
C14_LinkClosed ==
    (LeftLink /\ ~Collapsed)
        => /\ self.raised = ""
           /\ EndsWith(self.current_line,
                       LinkSuffix(LastEvent.details.href, LastEvent.details.title))

\* s without its spaces
NoSpaces(s) == SelectSeq(s, LAMBDA c : c # " ")

\* C15: when the links wrapping of text() flushes the buffer, for any text
\* run the parser may deliver next, nothing but spaces is lost: the flushed
\* line followed by the new buffer is the old buffer.
C15_LinkFlushKeepsText ==
    pc = "parse"
        => \A t \in TextRuns :
               LET text_splits == Split(EscapeDelimiter(t), " ")
                   flushed == LinkWrap(self, text_splits,
                                       get_currently_applied_width(self))
               IN  (Branch(self, t) = "plain" /\ flushed # self)
                       => NoSpaces(Flat(flushed)) = NoSpaces(Flat(self))

(***************************************************************************)
(* Where lines are broken.                                                 *)
(***************************************************************************)
\* no callback so far was for a span of set
NoSpanOf(set) == \A k \in 1..Len(events) : events[k].span \notin set

\* the width that applied to line k of the output
WidthOfLine(s, k) == IF k = 1 THEN s.first_line_width ELSE s.width

\* the index of the last space of a line, 0 when it holds none
LastSpace(line) ==
    IF \E i \in 1..Len(line) : line[i] = " "
    THEN CHOOSE i \in 1..Len(line) :
             line[i] = " " /\ \A j \in (i + 1)..Len(line) : line[j] # " "
    ELSE 0

\* the output breaks the rendered line only where it has a space: read with
\* every line break as a separator, it holds the words of the rendered line
BreaksAtSpaces ==
    OutputWords(wrap(self)) = Words(RenderedLine)

\* C16 as stated: with no link and no code span, lines are broken only at
\* spaces of the input, and a completed line longer than the applicable
\* width holds no space.
C16_OverlongSingleWord ==
    (pc = "parse" /\ NoSpanOf({"A", "CODE"}))
        => /\ BreaksAtSpaces
           /\ \A k \in 1..Len(ContentLines(self)) :
                  Len(ContentLines(self)[k]) > WidthOfLine(self, k)
                      => LastSpace(ContentLines(self)[k]) = 0

\* C16 amended: with no link and no code span, lines are broken only at
\* spaces of the input; and with text and emphasis only, a completed line is
\* longer than the applicable width only by its last word: what stands up
\* to its last space fits the width.
C16_BreaksAtSpaces ==
    /\ (pc = "parse" /\ NoSpanOf({"A", "CODE"})) => BreaksAtSpaces
    /\ NoSpanOf({"A", "CODE", "WIKILINK", "IMG"})
           => \A k \in 1..Len(ContentLines(self)) :
                  LastSpace(ContentLines(self)[k]) <= WidthOfLine(self, k)

\* text() broke text with emphasis at a space, completing a line that is too
\* long and holds a space
C16_Witness ==
    /\ pc = "parse"
    /\ NoSpanOf({"A", "CODE", "WIKILINK", "IMG"})
    /\ \E k \in 1..Len(events) : events[k].span = "EM"
    /\ self.current_line # <<>>
    /\ \E k \in 1..Len(ContentLines(self)) :
           /\ Len(ContentLines(self)[k]) > WidthOfLine(self, k)
           /\ LastSpace(ContentLines(self)[k]) > 0

(***************************************************************************)
(* The branches of text().                                                 *)
(***************************************************************************)
\* the last callback was text(), and it returned
JustText ==
    /\ pc = "parse"
    /\ events # <<>>
    /\ LastEvent.op = "text"

\* C17: text() takes the code span branch whenever a code span is open (the
\* run is appended verbatim, after at most one flush, also inside a link
\* whose href it equals); otherwise the wikilink branch whenever a target is
\* captured (no flush, the run appended after target| or, when it equals the
\* target, alone); otherwise the autolink branch when the run equals the
\* href of a link with no title (no flush, the buffer ends with <href>).
C17_BranchPriority ==
    JustText
        => LET prev == StateBefore(Len(events))
               t == LastEvent.text
               in_code == prev.inside_codespan
               in_wikilink == ~in_code /\ Truthy(prev.current_wikilink_target)
               collapses == /\ ~in_code
                            /\ ~in_wikilink
                            /\ prev.current_aspan_href = t
                            /\ ~Truthy(prev.current_aspan_title)
           IN  /\ in_code
                    => \/ /\ self.output = prev.output
                          /\ self.current_line = prev.current_line \o t
                       \/ /\ Len(ContentLines(self)) = Len(ContentLines(prev)) + 1
                          /\ self.current_line = <<BT>> \o t
               /\ in_wikilink
                    => /\ self.output = prev.output
                       /\ self.current_line
                            = prev.current_line
                              \o (IF t = prev.current_wikilink_target THEN t
                                  ELSE prev.current_wikilink_target \o <<"|">> \o t)
               /\ collapses
                    => /\ self.output = prev.output
                       /\ EndsWith(self.current_line, <<"<">> \o t \o <<">">>)

\* inside a link, a code span received the link's href as its text
C17_Witness ==
    /\ JustText
    /\ StateBefore(Len(events)).inside_codespan
    /\ StateBefore(Len(events)).current_aspan_href = LastEvent.text
    /\ ~Truthy(StateBefore(Len(events)).current_aspan_title)

\* ---------------------------------------------------------------------
\* C18: the inline-context flags follow the open spans.  After every
\* callback, returned or raised: the link target and title are set only
\* while a link is open, and are both unset once leave_span of the link
\* was called; the code span flag is set exactly while a code span is
\* open; the wikilink target is set exactly while a wikilink is open;
\* and text(), enter_block and leave_block leave the four flags alone.
Flags(s) ==
    <<s.current_aspan_href, s.current_aspan_title, s.inside_codespan,
      s.current_wikilink_target>>

FlagsFollowSpans ==
    /\ Truthy(self.current_aspan_href) => "A" \in OpenSpans
    /\ Truthy(self.current_aspan_title) => "A" \in OpenSpans
    /\ self.inside_codespan <=> "CODE" \in OpenSpans
    /\ Truthy(self.current_wikilink_target) <=> "WIKILINK" \in OpenSpans

FlagsFramed ==
    /\ (events # <<>> /\ LastEvent.op = "text")
          => Flags(self) = Flags(StateBefore(Len(events)))
    /\ Flags(enter_block(self, "P", NoDetails)) = Flags(self)
    /\ Flags(leave_block(self, "P", NoDetails)) = Flags(self)

C18_FlagsTrackSpans ==
    /\ FlagsFollowSpans
    /\ LeftLink => Flags(self)[1] = None /\ Flags(self)[2] = None
    /\ FlagsFramed

\* the same, in the states where every callback so far returned
C18_FlagsTrackSpansReturned == pc # "raised" => C18_FlagsTrackSpans

(***************************************************************************)
(* Soft line breaks: the parser delivers a line break inside a paragraph   *)
(* to text() as the run "\n".                                              *)
(***************************************************************************)
BreakRuns == {<<"a", "b">>, <<"a", " ", "b">>, <<"c", " ">>, NL}

NextBreaks ==
    \/ EnterBlock
    \/ LeaveBlock
    \/ \E in \in SpanInputs : EnterSpan(in[1], in[2], MaxEvents)
    \/ LeaveSpan
    \/ \E t \in BreakRuns : Text(t, MaxEvents)
    \/ Wrap

SpecBreaks == Init /\ [][NextBreaks]_vars

\* ---------------------------------------------------------------------
\* C19: the line buffer invariant.  In every state reached by enter_span,
\* leave_span and text callbacks, soft line breaks among the text runs,
\* the buffer of the line under construction does not end with a newline,
\* and every newline of the output ends a completed line: what follows it
\* is the next completed line, which starts with the indent.
C19_LineBuffer ==
    pc \in {"parse", "parsed", "raised"}
        => /\ ~EndsWith(self.current_line, NL)
           /\ \A k \in 1..(Len(Split(self.output, "\n")) - 1) :
                  IndentedLine(self, k)

\* ---------------------------------------------------------------------
\* entry i of the catalog has a usage [text][label] in its msgid and in its
\* msgstr
HasUsages(i) ==
    /\ translations[i][1] # None
    /\ translations[i][2] # None
    /\ ReferencedLinks(translations[i][1]) # <<>>
    /\ ReferencedLinks(translations[i][2]) # <<>>

Queued == {i \in 1..Len(translations) : HasUsages(i)}

\* C20: the call raises nothing; the returned dict holds one entry for each
\* catalog entry with usages on both sides and none for the others; and an
\* entry without usages on both sides is not returned.
C20_QueuedEntries ==
    rpc = "returned"
        => /\ solved.raised = ""
           /\ Len(solved.solutions) = Cardinality(Queued)
           /\ \A i \in 1..Len(translations) :
                  i \notin Queued => ~InSolutions(solved, translations[i])

=============================================================================
